---- MODULE Spec2Model ----
(***************************************************************************)
(* Eco-footprint dashboard (src/main.py, the Flask application app.py).    *)
(*                                                                         *)
(* The model covers the two routes of the application, the helper          *)
(* calculate_footprint, Python's float() and str() on the values that      *)
(* cross the redirect, and the process-wide pyplot state (the number of    *)
(* open figures and the current figure) that the /result handler draws     *)
(* on.  Requests are served by concurrent threads, so the /result handler  *)
(* is split at each pyplot call.                                           *)
(*                                                                         *)
(* Strings are sequences of one-character strings.  Floats are a scaled    *)
(* down binary format: finite values are signed multiples of 1/2 (one      *)
(* fractional bit), plus the two infinities and NaN.  Parsing rounds to    *)
(* the nearest representable value, ties to even, as float() does.  The    *)
(* input alphabet holds no exponent marker and no underscore.              *)
(***************************************************************************)
EXTENDS Integers, Sequences, FiniteSets, TLC

\* ------------------------------------------------------------------------
\* Bounds of the model
\* ------------------------------------------------------------------------

\* Number of request threads (clients) the server handles concurrently.
MaxRequests == 2

\* Number of pyplot figures that may be opened in one run (figures are never
\* closed, so this caps the number of /result requests served).
MaxFigures == 2

Requests == 1..MaxRequests

\* ------------------------------------------------------------------------
\* Python floats
\* ------------------------------------------------------------------------

Fin(neg, h) == [k |-> "fin", neg |-> neg, h |-> h]
Inf(neg) == [k |-> "inf", neg |-> neg, h |-> 0]
NaN == [k |-> "nan", neg |-> FALSE, h |-> 0]
FZero == Fin(FALSE, 0)

\* The signed number of halves of a finite float.
Halves(x) == IF x.neg THEN 0 - x.h ELSE x.h

IsFinite(x) == x.k = "fin"

\* x >= 0 as Python compares (False for NaN, True for -0.0).
NonNegative(x) ==
    \/ x.k = "fin" /\ (~x.neg \/ x.h = 0)
    \/ x.k = "inf" /\ ~x.neg

\* x == y as Python compares floats: NaN equals nothing, -0.0 equals 0.0.
FEq(x, y) ==
    /\ x.k # "nan"
    /\ y.k # "nan"
    /\ x.k = y.k
    /\ IF x.k = "fin" THEN Halves(x) = Halves(y) ELSE x.neg = y.neg

\* x + y on floats.
FAdd(x, y) ==
    IF x.k = "nan" \/ y.k = "nan" THEN NaN
    ELSE IF x.k = "inf" /\ y.k = "inf"
         THEN (IF x.neg = y.neg THEN x ELSE NaN)
    ELSE IF x.k = "inf" THEN x
    ELSE IF y.k = "inf" THEN y
    ELSE LET s == Halves(x) + Halves(y)
         IN  IF s = 0 THEN Fin(x.neg /\ y.neg, 0)
             ELSE IF s < 0 THEN Fin(TRUE, 0 - s)
             ELSE Fin(FALSE, s)

\* ------------------------------------------------------------------------
\* Python strings and float(str), str(float)
\* ------------------------------------------------------------------------

Digits == <<"0", "1", "2", "3", "4", "5", "6", "7", "8", "9">>

IsDigit(c) == \E i \in 1..10 : Digits[i] = c

DigitVal(c) == (CHOOSE i \in 1..10 : Digits[i] = c) - 1

DigitChar(d) == Digits[d + 1]

Lower(c) ==
    CASE c = "I" -> "i"
      [] c = "N" -> "n"
      [] c = "F" -> "f"
      [] c = "A" -> "a"
      [] c = "T" -> "t"
      [] c = "Y" -> "y"
      [] OTHER -> c

LowerStr(s) == [i \in 1..Len(s) |-> Lower(s[i])]

RECURSIVE LStrip(_)
LStrip(s) == IF s # <<>> /\ Head(s) = " " THEN LStrip(Tail(s)) ELSE s

RECURSIVE RStrip(_)
RStrip(s) ==
    IF s # <<>> /\ s[Len(s)] = " " THEN RStrip(SubSeq(s, 1, Len(s) - 1)) ELSE s

Strip(s) == RStrip(LStrip(s))

AllDigits(s) == \A i \in 1..Len(s) : IsDigit(s[i])

\* The natural number a digit string denotes (0 for the empty string).
RECURSIVE DigitsVal(_)
DigitsVal(s) ==
    IF s = <<>> THEN 0
    ELSE 10 * DigitsVal(SubSeq(s, 1, Len(s) - 1)) + DigitVal(s[Len(s)])

RECURSIVE Pow10(_)
Pow10(n) == IF n = 0 THEN 1 ELSE 10 * Pow10(n - 1)

\* num/den rounded to the nearest integer, ties to even.
RoundHalfEven(num, den) ==
    LET q == num \div den
        r == num % den
    IN  IF 2 * r < den THEN q
        ELSE IF 2 * r > den THEN q + 1
        ELSE IF q % 2 = 0 THEN q ELSE q + 1

\* Position of the first "." of s, or 0.
DotPos(s) ==
    IF \E i \in 1..Len(s) : s[i] = "."
    THEN CHOOSE i \in 1..Len(s) : s[i] = "." /\ \A j \in 1..(i - 1) : s[j] # "."
    ELSE 0

\* An unsigned decimal literal: digits, digits "." digits?, or "." digits.
IsDecimal(s) ==
    LET p == DotPos(s)
        ip == IF p = 0 THEN s ELSE SubSeq(s, 1, p - 1)
        fp == IF p = 0 THEN <<>> ELSE SubSeq(s, p + 1, Len(s))
    IN  /\ AllDigits(ip)
        /\ AllDigits(fp)
        /\ Len(ip) + Len(fp) > 0

\* The number of halves nearest to an unsigned decimal literal.
DecimalHalves(s) ==
    LET p == DotPos(s)
        ip == IF p = 0 THEN s ELSE SubSeq(s, 1, p - 1)
        fp == IF p = 0 THEN <<>> ELSE SubSeq(s, p + 1, Len(s))
    IN  RoundHalfEven(2 * DigitsVal(ip \o fp), Pow10(Len(fp)))

Ok(v) == [exc |-> "none", v |-> v]
Raise(e) == [exc |-> e, v |-> NaN]

\* A value handed to float(): a string, or the integer default 0 of dict.get.
PyStr(s) == [t |-> "str", s |-> s, i |-> 0]
PyInt(i) == [t |-> "int", s |-> <<>>, i |-> i]

\* float(str): surrounding blanks stripped, an optional sign, then inf,
\* infinity or nan in any case, or a decimal literal; ValueError otherwise.
FloatOfStr(str0) ==
    LET s == Strip(str0)
        signed == s # <<>> /\ Head(s) \in {"+", "-"}
        neg == s # <<>> /\ Head(s) = "-"
        body == IF signed THEN Tail(s) ELSE s
        low == LowerStr(body)
    IN  IF low = <<"i", "n", "f">> \/ low = <<"i", "n", "f", "i", "n", "i", "t", "y">>
        THEN Ok(Inf(neg))
        ELSE IF low = <<"n", "a", "n">> THEN Ok(NaN)
        ELSE IF IsDecimal(body) THEN Ok(Fin(neg, DecimalHalves(body)))
        ELSE Raise("ValueError")

\* Python's float(x).
float(x) ==
    IF x.t = "int"
    THEN Ok(Fin(x.i < 0, 2 * (IF x.i < 0 THEN 0 - x.i ELSE x.i)))
    ELSE FloatOfStr(x.s)

\* The decimal digits of a natural number.
RECURSIVE NatStr(_)
NatStr(n) == IF n < 10 THEN <<DigitChar(n)>> ELSE NatStr(n \div 10) \o <<DigitChar(n % 10)>>

\* Python's str(float): the shortest text that reads back as the same float.
str(x) ==
    IF x.k = "nan" THEN <<"n", "a", "n">>
    ELSE LET sign == IF x.neg THEN <<"-">> ELSE <<>>
         IN  IF x.k = "inf" THEN sign \o <<"i", "n", "f">>
             ELSE sign \o NatStr(x.h \div 2) \o <<".">>
                       \o (IF x.h % 2 = 0 THEN <<"0">> ELSE <<"5">>)

\* ------------------------------------------------------------------------
\* Requests, forms and query strings
\* ------------------------------------------------------------------------

Keys == {"transport", "electricity", "waste"}

\* Marks a field that the client left out of the form or of the query.
Absent == <<"absent">>

\* The form (or query) that holds exactly the fields of c that are not Absent.
MkData(c) == [k \in {x \in DOMAIN c : c[x] # Absent} |-> c[k]]

MkForm(t, e, w) == MkData([transport |-> t, electricity |-> e, waste |-> w])

MkArgs(t, e, w, tot) ==
    MkData([transport |-> t, electricity |-> e, waste |-> w, total |-> tot])

NoData == MkData([transport |-> Absent])

\* dict.get without the default: an absent key yields the empty string.
get_NoDefault(data, key, default) ==
    IF key \in DOMAIN data THEN PyStr(data[key]) ELSE PyStr(<<>>)

\* dict.get(key, default) of a form or a query: its values are strings.
get(data, key, default) ==
    IF key \in DOMAIN data THEN PyStr(data[key]) ELSE default

\* ------------------------------------------------------------------------
\* calculate_footprint and the index handler
\* ------------------------------------------------------------------------

\* The tuple calculate_footprint returns, or None.
Tuple(t, e, w, tot) ==
    [none |-> FALSE, raised |-> "none",
     transport |-> t, electricity |-> e, waste |-> w, total |-> tot]

None == [none |-> TRUE, raised |-> "none",
         transport |-> FZero, electricity |-> FZero, waste |-> FZero, total |-> FZero]

\* An exception that leaves calculate_footprint uncaught.
Propagate(exc) == [None EXCEPT !.raised = exc]

\* An except clause that names TypeError alone.
Caught_TypeErrorOnly == {"TypeError"}

\* The except clause of calculate_footprint.
Caught == {"ValueError", "TypeError"}

Except(exc) == IF exc \in Caught THEN None ELSE Propagate(exc)

\* calculate_footprint with the waste term left out of the sum.
calculate_footprint_NoWaste(data) ==
    LET transport == float(get(data, "transport", PyInt(0)))
        electricity == float(get(data, "electricity", PyInt(0)))
        waste == float(get(data, "waste", PyInt(0)))
    IN  IF transport.exc # "none" THEN Except(transport.exc)
        ELSE IF electricity.exc # "none" THEN Except(electricity.exc)
        ELSE IF waste.exc # "none" THEN Except(waste.exc)
        ELSE Tuple(transport.v, electricity.v, waste.v,
                   FAdd(transport.v, electricity.v))

\* calculate_footprint with each field parsed under its own try: a field that
\* does not parse counts as 0 and the others are still summed.
calculate_footprint_PartialSum(data) ==
    LET val(key) ==
            LET f == float(get(data, key, PyInt(0)))
            IN  IF f.exc = "none" THEN f.v ELSE FZero
    IN  Tuple(val("transport"), val("electricity"), val("waste"),
              FAdd(FAdd(val("transport"), val("electricity")), val("waste")))

calculate_footprint(data) ==
    LET transport == float(get(data, "transport", PyInt(0)))
        electricity == float(get(data, "electricity", PyInt(0)))
        waste == float(get(data, "waste", PyInt(0)))
    IN  IF transport.exc # "none" THEN Except(transport.exc)
        ELSE IF electricity.exc # "none" THEN Except(electricity.exc)
        ELSE IF waste.exc # "none" THEN Except(waste.exc)
        ELSE Tuple(transport.v, electricity.v, waste.v,
                   FAdd(FAdd(transport.v, electricity.v), waste.v))

InvalidInput == "Invalid input values."

GeneratingError == "Error in generating the result."

NoPlot == [b64 |-> <<>>]

\* render_template('index.html', error=...): the submission form.
RenderIndex(error) ==
    [status |-> 200, template |-> "index.html", error |-> error,
     location |-> NoData, plot_url |-> NoPlot, total |-> FZero]

\* render_template('result.html', plot_url=..., total=...).
RenderResult(plot_url, total) ==
    [status |-> 200, template |-> "result.html", error |-> "",
     location |-> NoData, plot_url |-> plot_url, total |-> total]

\* redirect(url_for('result', ...)): each value of the query is str(value).
Redirect(transport, electricity, waste, total) ==
    [status |-> 302, template |-> "", error |-> "",
     location |-> MkArgs(str(transport), str(electricity), str(waste), str(total)),
     plot_url |-> NoPlot, total |-> FZero]

\* An exception that left the handler: the framework answers 500.
ServerError ==
    [status |-> 500, template |-> "", error |-> "",
     location |-> NoData, plot_url |-> NoPlot, total |-> FZero]

NoResponse ==
    [status |-> 0, template |-> "", error |-> "",
     location |-> NoData, plot_url |-> NoPlot, total |-> FZero]

\* The response of index() to a POST whose calculate_footprint returned res.
index(res) ==
    IF res.raised # "none" THEN ServerError
    ELSE IF res.none THEN RenderIndex(InvalidInput)
    ELSE Redirect(res.transport, res.electricity, res.waste, res.total)

\* ------------------------------------------------------------------------
\* pyplot: the process-wide figure manager.  Figures are opened and never
\* closed; the calls of result() reach only the current (last opened) one,
\* so the state is the number of open figures and the current figure.
\* ------------------------------------------------------------------------

NewFigure == [bars |-> <<>>, title |-> "", xlabel |-> "", ylabel |-> ""]

categories == <<"Transport", "Electricity", "Waste">>

colors == <<"blue", "green", "red">>

\* The three rectangles plt.bar(categories, values, color=[...]) adds.
Bars(values) ==
    [i \in 1..3 |-> [x |-> categories[i], height |-> values[i], color |-> colors[i]]]

NoFigures == [open |-> 0, gcf |-> NewFigure]

\* plt.figure(figsize=(6, 4)): one more open figure, which becomes current.
PltFigure(fl) == [open |-> fl.open + 1, gcf |-> NewFigure]

\* plt.bar on the current figure.
PltBar(fl, values) ==
    [fl EXCEPT !.gcf.bars = @ \o Bars(values)]

\* plt.title, plt.xlabel, plt.ylabel on the current figure.
PltLabels(fl) ==
    [fl EXCEPT !.gcf.title = "Carbon Footprint Breakdown",
               !.gcf.xlabel = "Category",
               !.gcf.ylabel = "Carbon Footprint (in CO2e)"]

\* plt.savefig(img, format='png'): the picture of the current figure.
PltSavefig(fl) == [png |-> fl.gcf]

\* base64.b64encode(img.getvalue()).decode().
B64Encode(img) == [b64 |-> <<img>>]

\* ------------------------------------------------------------------------
\* State
\* ------------------------------------------------------------------------

VARIABLES
    pc,        \* per request: where the client or the handler thread stands
    form,      \* per request: request.form of the POST the client submitted
    args,      \* per request: request.args of the GET /result
    result,    \* per request: index()'s local result (calculate_footprint's return)
    locals,    \* per request: result()'s transport, electricity, waste, total
    err,       \* per request: the exception e that result() caught, and where
    figs,      \* process-wide: pyplot's open figures and the current one
    response   \* per request: the last response the client received

vars == <<pc, form, args, result, locals, err, figs, response>>

NoLocals ==
    [transport |-> FZero, electricity |-> FZero, waste |-> FZero, total |-> FZero]

\* The steps of result() that call pyplot, between which another thread
\* may run.
ChartSteps == {"Figure", "Bar", "Labels", "Savefig"}

Init ==
    /\ pc = [r \in Requests |-> "AwaitingSubmission"]
    /\ form = [r \in Requests |-> NoData]
    /\ args = [r \in Requests |-> NoData]
    /\ result = [r \in Requests |-> None]
    /\ locals = [r \in Requests |-> NoLocals]
    /\ err = [r \in Requests |-> "none"]
    /\ figs = NoFigures
    /\ response = [r \in Requests |-> NoResponse]

\* ------------------------------------------------------------------------
\* Inputs
\* ------------------------------------------------------------------------

\* Largest finite input of the calculator runs, in halves.
MaxHalves == 10

s10 == <<"1", "0">>
s5 == <<"5">>
s2 == <<"2">>
s1 == <<"1">>
sAbc == <<"a", "b", "c">>

\* The decimal texts of the non-negative finite floats up to MaxHalves.
Numerals ==
    {str(Fin(FALSE, h)) : h \in 0..MaxHalves}
        \cup {NatStr(h \div 2) : h \in {x \in 0..MaxHalves : x % 2 = 0}}

\* Texts float() accepts that are not non-negative finite numbers.
Unusual == {<<"-", "3">>, <<"i", "n", "f">>, <<"n", "a", "n">>}

\* Texts that are not numbers.
NonNumeric == {sAbc, <<>>, <<"1", ".", "2", ".", "3">>, <<"1", " ", "0">>}

\* What one field of a submitted form may hold in the calculator runs.
FieldChoices == Numerals \cup Unusual \cup NonNumeric \cup {Absent}

\* The forms submitted to the concurrent server.
Submissions ==
    { MkForm(s10, s5, s2),
      MkForm(sAbc, s5, s2) }

\* The queries a client sends to /result without a preceding submission.
Queries ==
    { MkArgs(s1, s1, Absent, s5),
      MkArgs(sAbc, s1, s1, <<"3">>) }

\* ------------------------------------------------------------------------
\* Actions
\* ------------------------------------------------------------------------

\* The client posts form f to / .
Submit(r, f) ==
    /\ pc[r] = "AwaitingSubmission"
    /\ pc' = [pc EXCEPT ![r] = "Validating"]
    /\ form' = [form EXCEPT ![r] = f]
    /\ args' = [args EXCEPT ![r] = NoData]
    /\ result' = [result EXCEPT ![r] = None]
    /\ locals' = [locals EXCEPT ![r] = NoLocals]
    /\ err' = [err EXCEPT ![r] = "none"]
    /\ response' = [response EXCEPT ![r] = NoResponse]
    /\ UNCHANGED figs

\* index() on GET: the empty submission form.
IndexGet(r) ==
    /\ pc[r] \in {"AwaitingSubmission", "Redirected", "Done"}
    /\ pc' = [pc EXCEPT ![r] = "AwaitingSubmission"]
    /\ form' = [form EXCEPT ![r] = NoData]
    /\ args' = [args EXCEPT ![r] = NoData]
    /\ result' = [result EXCEPT ![r] = None]
    /\ locals' = [locals EXCEPT ![r] = NoLocals]
    /\ err' = [err EXCEPT ![r] = "none"]
    /\ response' = [response EXCEPT ![r] = RenderIndex("")]
    /\ UNCHANGED figs

\* index() on POST.
IndexPost(r) ==
    /\ pc[r] = "Validating"
    /\ LET res == calculate_footprint(form[r])
           resp == index(res)
       IN  /\ result' = [result EXCEPT ![r] = res]
           /\ response' = [response EXCEPT ![r] = resp]
           /\ pc' = [pc EXCEPT ![r] =
                        IF resp.status = 302 THEN "Redirected" ELSE "Failed"]
    /\ UNCHANGED <<form, args, locals, err, figs>>

\* Figures are never closed: a /result request is dispatched only while the
\* run's figure budget covers it.
FigureBudget ==
    figs.open + Cardinality({r \in Requests : pc[r] \in {"Parse", "Figure"}})
        < MaxFigures

\* The client follows the redirect: GET /result with the query of the location.
FollowRedirect(r) ==
    /\ pc[r] = "Redirected"
    /\ FigureBudget
    /\ pc' = [pc EXCEPT ![r] = "Parse"]
    /\ args' = [args EXCEPT ![r] = response[r].location]
    /\ UNCHANGED <<form, result, locals, err, figs, response>>

\* The client requests /result with a query of its own.
DirectGet(r, q) ==
    /\ pc[r] = "AwaitingSubmission"
    /\ FigureBudget
    /\ pc' = [pc EXCEPT ![r] = "Parse"]
    /\ args' = [args EXCEPT ![r] = q]
    /\ form' = [form EXCEPT ![r] = NoData]
    /\ result' = [result EXCEPT ![r] = None]
    /\ locals' = [locals EXCEPT ![r] = NoLocals]
    /\ err' = [err EXCEPT ![r] = "none"]
    /\ response' = [response EXCEPT ![r] = NoResponse]
    /\ UNCHANGED figs

\* The four float(request.args.get(..., 0)) of result(): the first exception.
ParseArgs(q) ==
    LET transport == float(get(q, "transport", PyInt(0)))
        electricity == float(get(q, "electricity", PyInt(0)))
        waste == float(get(q, "waste", PyInt(0)))
        total == float(get(q, "total", PyInt(0)))
    IN  IF transport.exc # "none" THEN [exc |-> transport.exc, v |-> NoLocals]
        ELSE IF electricity.exc # "none" THEN [exc |-> electricity.exc, v |-> NoLocals]
        ELSE IF waste.exc # "none" THEN [exc |-> waste.exc, v |-> NoLocals]
        ELSE IF total.exc # "none" THEN [exc |-> total.exc, v |-> NoLocals]
        ELSE [exc |-> "none",
              v |-> [transport |-> transport.v, electricity |-> electricity.v,
                     waste |-> waste.v, total |-> total.v]]

\* result(): the query is parsed; an exception falls to the except clause.
ResultParse(r) ==
    /\ pc[r] = "Parse"
    /\ LET p == ParseArgs(args[r])
       IN  IF p.exc = "none"
           THEN /\ locals' = [locals EXCEPT ![r] = p.v]
                /\ pc' = [pc EXCEPT ![r] = "Figure"]
                /\ UNCHANGED <<err, response>>
           ELSE /\ err' = [err EXCEPT ![r] = "args"]
                /\ response' = [response EXCEPT ![r] = RenderIndex(GeneratingError)]
                /\ pc' = [pc EXCEPT ![r] = "Failed"]
                /\ UNCHANGED locals
    /\ UNCHANGED <<form, args, result, figs>>

\* result(): plt.figure(figsize=(6, 4)) opens a figure and makes it current.
ResultFigure(r) ==
    /\ pc[r] = "Figure"
    /\ figs' = PltFigure(figs)
    /\ pc' = [pc EXCEPT ![r] = "Bar"]
    /\ UNCHANGED <<form, args, result, locals, err, response>>

\* The values result() hands to plt.bar.
Values(l) == <<l.transport, l.electricity, l.waste>>

\* result(): plt.bar(categories, values, ...) draws on the current figure.
ResultBar(r) ==
    /\ pc[r] = "Bar"
    /\ figs' = PltBar(figs, Values(locals[r]))
    /\ pc' = [pc EXCEPT ![r] = "Labels"]
    /\ UNCHANGED <<form, args, result, locals, err, response>>

\* result(): plt.title, plt.xlabel, plt.ylabel.
ResultLabels(r) ==
    /\ pc[r] = "Labels"
    /\ figs' = PltLabels(figs)
    /\ pc' = [pc EXCEPT ![r] = "Savefig"]
    /\ UNCHANGED <<form, args, result, locals, err, response>>

RECURSIVE SumHeights(_)
SumHeights(bars) ==
    IF bars = <<>> THEN FZero ELSE FAdd(Head(bars).height, SumHeights(Tail(bars)))

\* result() showing the sum of the bars of the current figure as the total.
ResultSavefig_TotalOfChart(r) ==
    /\ pc[r] = "Savefig"
    /\ response' = [response EXCEPT ![r] =
                       RenderResult(B64Encode(PltSavefig(figs)),
                                    SumHeights(figs.gcf.bars))]
    /\ pc' = [pc EXCEPT ![r] = "Done"]
    /\ UNCHANGED <<form, args, result, locals, err, figs>>

\* result(): the current figure is saved and encoded, the page rendered.
ResultSavefig(r) ==
    /\ pc[r] = "Savefig"
    /\ response' = [response EXCEPT ![r] =
                       RenderResult(B64Encode(PltSavefig(figs)), locals[r].total)]
    /\ pc' = [pc EXCEPT ![r] = "Done"]
    /\ UNCHANGED <<form, args, result, locals, err, figs>>

\* result(): a pyplot, io or base64 call raises; the except clause answers.
ResultRaise(r) ==
    /\ pc[r] \in ChartSteps
    /\ err' = [err EXCEPT ![r] = "chart"]
    /\ response' = [response EXCEPT ![r] = RenderIndex(GeneratingError)]
    /\ pc' = [pc EXCEPT ![r] = "Failed"]
    /\ UNCHANGED <<form, args, result, locals, figs>>

\* The request is over: the client is back at the submission form, which
\* shows the error of the response.
ShowForm(r) ==
    /\ pc[r] = "Failed"
    /\ pc' = [pc EXCEPT ![r] = "AwaitingSubmission"]
    /\ form' = [form EXCEPT ![r] = NoData]
    /\ args' = [args EXCEPT ![r] = NoData]
    /\ result' = [result EXCEPT ![r] = None]
    /\ locals' = [locals EXCEPT ![r] = NoLocals]
    /\ err' = [err EXCEPT ![r] = "none"]
    /\ UNCHANGED <<figs, response>>

Next ==
    \E r \in Requests :
        \/ \E f \in Submissions : Submit(r, f)
        \/ IndexGet(r)
        \/ IndexPost(r)
        \/ FollowRedirect(r)
        \/ \E q \in Queries : DirectGet(r, q)
        \/ ResultParse(r)
        \/ ResultFigure(r)
        \/ ResultBar(r)
        \/ ResultLabels(r)
        \/ ResultSavefig(r)
        \/ ResultRaise(r)
        \/ ShowForm(r)

Spec == Init /\ [][Next]_vars

\* The calculator runs: one client submits every form over FieldChoices.
CalcForms == {MkForm(t, e, w) : t \in FieldChoices, e \in FieldChoices, w \in FieldChoices}

CalcNext ==
    \/ \E f \in CalcForms : Submit(1, f)
    \/ IndexPost(1)
    \/ IndexGet(1)
    \/ ShowForm(1)

SpecCalc == Init /\ [][CalcNext]_vars

\* ------------------------------------------------------------------------
\* Properties
\* ------------------------------------------------------------------------

\* index() has answered request r's POST.
Posted(r) == pc[r] = "Redirected" \/ (pc[r] = "Failed" /\ err[r] = "none")

\* result() has answered request r's GET /result.
Answered(r) == pc[r] = "Done" \/ (pc[r] = "Failed" /\ err[r] # "none")

\* The texts that denote the non-negative finite number h/2.
Texts(h) ==
    {str(Fin(FALSE, h))} \cup (IF h % 2 = 0 THEN {NatStr(h \div 2)} ELSE {})

\* The text s denotes a non-negative finite number within the bound.
IsNumeral(s) == \E h \in 0..MaxHalves : s \in Texts(h)

\* The number of halves a numeral denotes; an absent field counts 0.
Denoted(data, key) ==
    IF key \in DOMAIN data
    THEN CHOOSE h \in 0..MaxHalves : data[key] \in Texts(h)
    ELSE 0

\* Every field of the form that is present is a numeral.
NumericForm(data) == \A k \in DOMAIN data : IsNumeral(data[k])

\* Some field of the form or query is present and is not a number.
HasNonNumeric(data) == \E k \in DOMAIN data : data[k] \in NonNumeric

\* What calculate_footprint is to return for a form of numerals.
Expected(data) ==
    Tuple(Fin(FALSE, Denoted(data, "transport")),
          Fin(FALSE, Denoted(data, "electricity")),
          Fin(FALSE, Denoted(data, "waste")),
          Fin(FALSE, Denoted(data, "transport") + Denoted(data, "electricity")
                        + Denoted(data, "waste")))

\* C1: for every form whose three fields are all present and denote
\* non-negative finite numbers t, e, w (the all-zero form included),
\* calculate_footprint returns the tuple (t, e, w, t + e + w).
C1_SumOfNonNegativeTriple ==
    \A r \in Requests :
        (Posted(r) /\ DOMAIN form[r] = Keys /\ NumericForm(form[r]))
            => result[r] = Expected(form[r])

C1_Witness ==
    /\ Posted(1)
    /\ form[1] = MkForm(<<"2">>, <<"1", ".", "5">>, <<"0", ".", "5">>)
    /\ result[1].total = Fin(FALSE, 8)

\* C2: when any field of the posted form is not a number, whichever field it
\* is and whatever the others hold, calculate_footprint returns None and the
\* handler answers with the submission form and "Invalid input values.",
\* never with the redirect.
C2_NonNumericFieldFails ==
    \A r \in Requests :
        (Posted(r) /\ HasNonNumeric(form[r]))
            => /\ result[r] = None
               /\ response[r] = RenderIndex(InvalidInput)
               /\ pc[r] = "Failed"

C2_Witness ==
    /\ Posted(1)
    /\ form[1] = MkForm(<<"2">>, <<"1">>, sAbc)
    /\ result[1].none
    /\ response[1].status = 200
    /\ response[1].error = InvalidInput

\* C3: in every result page, the total equals the sum of the three
\* components of the same request.
C3_TotalIsSumOfComponents ==
    \A r \in Requests :
        pc[r] = "Done"
            => FEq(response[r].total,
                   FAdd(FAdd(locals[r].transport, locals[r].electricity),
                        locals[r].waste))

\* C4: every tuple calculate_footprint returns, and every set of values the
\* result handler charts, holds only non-negative finite numbers.
C4_OnlyNonNegativeFinite ==
    \A r \in Requests :
        /\ (Posted(r) /\ ~result[r].none)
               => \A x \in {result[r].transport, result[r].electricity,
                            result[r].waste} : IsFinite(x) /\ NonNegative(x)
        /\ pc[r] = "Done"
               => \A x \in {locals[r].transport, locals[r].electricity,
                            locals[r].waste} : IsFinite(x) /\ NonNegative(x)

\* The state of the request lifecycle a position of the model stands for.
Phase(p) ==
    CASE p = "AwaitingSubmission" -> "AwaitingSubmission"
      [] p \in {"Validating", "Redirected"} -> "Validating"
      [] p \in {"Parse"} \cup ChartSteps -> "Presenting"
      [] p = "Done" -> "Done"
      [] p = "Failed" -> "Failed"

\* C5: a request enters Presenting only from Validating, after validation
\* succeeded.
C5_PresentingOnlyAfterValidation ==
    [][\A r \in Requests :
          (Phase(pc'[r]) = "Presenting" /\ Phase(pc[r]) # "Presenting")
              => pc[r] = "Redirected"]_vars

ChartBars(resp) == resp.plot_url.b64[1].png.bars

\* C7: the chart of every result page holds exactly the three bars of the
\* request's own transport, electricity and waste, and the page its own total.
C7_ChartOfOwnValues ==
    \A r \in Requests :
        pc[r] = "Done"
            => /\ ChartBars(response[r]) = Bars(Values(locals[r]))
               /\ response[r].total = locals[r].total

\* C8: the submission (10, 5, 2) is redirected with the query 10.0, 5.0, 2.0,
\* 17.0, and the result page it leads to charts Transport 10, Electricity 5,
\* Waste 2 and shows the total 17.0.
C8_RoundTrip ==
    \A r \in Requests :
        form[r] = MkForm(s10, s5, s2)
            => /\ pc[r] = "Redirected" =>
                     response[r].location =
                         MkArgs(<<"1", "0", ".", "0">>, <<"5", ".", "0">>,
                                <<"2", ".", "0">>, <<"1", "7", ".", "0">>)
               /\ pc[r] = "Done" =>
                     /\ ChartBars(response[r]) =
                            Bars(<<Fin(FALSE, 20), Fin(FALSE, 10), Fin(FALSE, 4)>>)
                     /\ str(response[r].total) = <<"1", "7", ".", "0">>

\* C9: a field absent from the form counts as 0: for every form with at least
\* one field absent and numerals in the fields present, calculate_footprint
\* returns a tuple with 0 for each absent field and the sum of the present
\* fields as total (0 for the empty form).
C9_AbsentFieldIsZero ==
    \A r \in Requests :
        (Posted(r) /\ DOMAIN form[r] # Keys /\ NumericForm(form[r]))
            => /\ result[r] = Expected(form[r])
               /\ \A k \in Keys \ DOMAIN form[r] : result[r][k] = FZero

C9_Witness ==
    /\ Posted(1)
    /\ form[1] = MkForm(Absent, s5, Absent)
    /\ result[1] = Tuple(FZero, Fin(FALSE, 10), FZero, Fin(FALSE, 10))

====
